---------------------------- MODULE Spec2Model ----------------------------
(***************************************************************************)
(* Verification model of cxrodgers/machine_learning:                       *)
(*   cells_kitchen/region_proposal/train.py   (fit loop, callbacks,        *)
(*                                             checkpoint cleanup)         *)
(*   cells_kitchen/region_proposal/utils.py   (get_frames, scale_img,      *)
(*                                             get_targets,                *)
(*                                             enhance_contrast)           *)
(*   whisker_segmentation/models.py           (leap, hourglass,            *)
(*                                             stacked_hourglass)          *)
(* Each program part has its own variables and its own specification; the  *)
(* variables of the other parts stay at their idle values.                 *)
(***************************************************************************)
EXTENDS Integers, Sequences, FiniteSets, TLC

VARIABLES
    \* ---- train.py ----
    t_pc,             \* "fit" | "cleanup" | "done" | "error"
    early_stopping,   \* cfg.early_stopping: patience of EarlyStopping
    training_epochs,  \* cfg.training_epochs
    history,          \* val_loss of every epoch run so far
    es_wait,          \* EarlyStopping.wait
    es_best,          \* EarlyStopping.best
    stop_training,    \* model.stop_training
    mc_best,          \* ModelCheckpoint.best
    model_path,       \* the checkpoint files in the model folder
    \* ---- models.py ----
    m_pc,             \* "call" | "done"
    img_size,         \* <<height, width>> or <<height, width, channels>>
    output_channels,
    filters,
    optimizer,
    loss_fcn,
    upsampling_layers,
    model,            \* what the builder called returned (or that it raised)
    \* ---- utils.py: scale_img, enhance_contrast ----
    i_pc,             \* "call" | "scaled" | "enhanced"
    img,              \* the pixel values of the input image, flattened
    percentiles,      \* <<lower, upper>> percentiles
    img_out,          \* the pixel values returned, as fractions
    \* ---- utils.py: get_targets ----
    g_pc,             \* "call" | "done"
    dimensions,       \* 'dimensions' of info.json
    cell_masks,       \* the coordinates of each cell of consensus_regions.json
    centroid_radius,
    masks_per_cell,   \* returned for collapse_masks=False
    masks_collapsed,  \* returned for collapse_masks=True
    \* ---- utils.py: get_frames ----
    f_pc,             \* "call" | "done" | "IOError" | "IndexError"
    n_files,          \* len(files): the number of *.tif files in the folder
    frame_numbers,    \* None, a list of integers, or an integer
    load_files        \* the files loaded, as 0-based positions in files

trainVars == <<t_pc, early_stopping, training_epochs, history, es_wait,
               es_best, stop_training, mc_best, model_path>>

modelVars == <<m_pc, img_size, output_channels, filters, optimizer, loss_fcn,
               upsampling_layers, model>>

imgVars == <<i_pc, img, percentiles, img_out>>

targetVars == <<g_pc, dimensions, cell_masks, centroid_radius,
                masks_per_cell, masks_collapsed>>

frameVars == <<f_pc, n_files, frame_numbers, load_files>>

vars == <<trainVars, modelVars, imgVars, targetVars, frameVars>>

----------------------------------------------------------------------------
(* Bounds of the model.                                                    *)

MaxEpochs == 4      \* cfg.training_epochs ranges over 1..MaxEpochs
MaxPatience == 3    \* cfg.early_stopping ranges over 1..MaxPatience
MaxLoss == 2        \* a finite val_loss ranges over 0..MaxLoss
MaxDim == 33        \* image height and width range over None and 1..MaxDim
MaxChannels == 1    \* image channels range over 1..MaxChannels (or absent)
MaxFilters == 2     \* filters ranges over 1..MaxFilters
MaxOutputs == 2     \* output_channels ranges over 1..MaxOutputs
MaxPixels == 3      \* an image has 1..MaxPixels pixels
MaxValue == 2       \* a pixel value ranges over 0..MaxValue
MaxSide == 2        \* each entry of 'dimensions' ranges over 1..MaxSide
MaxCoords == 3      \* a label file holds at most MaxCoords coordinates in all
MaxRadius == 1      \* centroid_radius ranges over 0..MaxRadius
MaxFiles == 5       \* a folder holds 0..MaxFiles *.tif files
MaxFrames == 6      \* an integer frame_numbers ranges over 1..MaxFrames
MaxList == 2        \* a list frame_numbers has 1..MaxList entries

----------------------------------------------------------------------------
(* Generic helpers.                                                        *)

Min(a, b) == IF a <= b THEN a ELSE b
Max(a, b) == IF a >= b THEN a ELSE b
Range(s) == {s[i] : i \in DOMAIN s}

----------------------------------------------------------------------------
(* train.py: model.fit_generator with EarlyStopping and ModelCheckpoint,   *)
(* then the checkpoint cleanup.                                            *)

\* A monitored value: a finite number, NaN, or +inf (the callbacks' initial
\* best for a monitor that is minimised).
Num(n) == [kind |-> "num", v |-> n]
NaN == [kind |-> "nan", v |-> 0]
Inf == [kind |-> "inf", v |-> 0]
ValLosses == {Num(n) : n \in 0..MaxLoss} \cup {NaN}

\* np.less(a, b), the monitor_op both callbacks use for val_loss
\* (mode 'auto', monitor without 'acc'): False whenever a NaN is involved.
NpLessEqual(a, b) ==
    /\ a.kind # "nan" /\ b.kind # "nan"
    /\ \/ b.kind = "inf"
       \/ a.kind = "num" /\ b.kind = "num" /\ a.v <= b.v
NpLess(a, b) ==
    /\ a.kind # "nan" /\ b.kind # "nan"
    /\ \/ a.kind = "num" /\ b.kind = "inf"
       \/ a.kind = "num" /\ b.kind = "num" /\ a.v < b.v

\* EarlyStopping(patience=cfg.early_stopping).on_epoch_end with the defaults
\* monitor='val_loss', min_delta=0: the callback's state after the epoch.
\* (EarlyStoppingLate is the variant that compares wait with patience before
\* counting the epoch, against which the statement of C2 is tested.)
EarlyStoppingLate(es, current, patience) ==
    IF NpLess(current, es.best)
    THEN [best |-> current, wait |-> 0, stop |-> es.stop]
    ELSE [best |-> es.best, wait |-> es.wait + 1,
          stop |-> es.stop \/ (es.wait >= patience)]
EarlyStopping(es, current, patience) ==
    IF NpLess(current, es.best)
    THEN [best |-> current, wait |-> 0, stop |-> es.stop]
    ELSE [best |-> es.best, wait |-> es.wait + 1,
          stop |-> es.stop \/ (es.wait + 1 >= patience)]

\* A checkpoint file '<name>.{epoch:02d}-{val_loss:.6f}.hdf5': named by the
\* 1-based epoch and the val_loss of that epoch.
CheckpointFile(epoch, current) == [epoch |-> epoch, val_loss |-> current]

\* ModelCheckpoint(filepath, save_best_only=True).on_epoch_end: writes a
\* file only when val_loss improved on the best value seen.
ModelCheckpoint(mc, epoch, current) ==
    IF NpLess(current, mc.best)
    THEN [best |-> current,
          files |-> mc.files \cup {CheckpointFile(epoch, current)}]
    ELSE mc

\* glob(os.path.join(model_path, '*hdf5')): the files in the order the
\* directory listing returns them, which glob does not sort.
Listings(files) ==
    {l \in [1..Cardinality(files) -> files] : Range(l) = files}
Glob(files) == Listings(files)

\* models_to_delete = glob(...)[:-1]
AllButLast(l) == {l[i] : i \in 1..(Len(l) - 1)}
ModelsToDelete(l) == AllButLast(l)

IdleTrain ==
    /\ t_pc = "idle"
    /\ early_stopping = 0
    /\ training_epochs = 0
    /\ history = <<>>
    /\ es_wait = 0
    /\ es_best = <<>>
    /\ stop_training = FALSE
    /\ mc_best = <<>>
    /\ model_path = {}

IdleModels ==
    /\ m_pc = "idle"
    /\ img_size = <<>>
    /\ output_channels = 0
    /\ filters = 0
    /\ optimizer = ""
    /\ loss_fcn = ""
    /\ upsampling_layers = FALSE
    /\ model = <<>>

IdleImg ==
    /\ i_pc = "idle"
    /\ img = <<>>
    /\ percentiles = <<>>
    /\ img_out = <<>>

IdleTargets ==
    /\ g_pc = "idle"
    /\ dimensions = <<>>
    /\ cell_masks = <<>>
    /\ centroid_radius = 0
    /\ masks_per_cell = <<>>
    /\ masks_collapsed = <<>>

IdleFrames ==
    /\ f_pc = "idle"
    /\ n_files = 0
    /\ frame_numbers = <<>>
    /\ load_files = <<>>

InitTrain ==
    /\ IdleModels
    /\ IdleImg
    /\ IdleTargets
    /\ IdleFrames
    /\ t_pc = "fit"
    /\ early_stopping \in 1..MaxPatience
    /\ training_epochs \in 1..MaxEpochs
    /\ history = <<>>
    /\ es_wait = 0
    /\ es_best = Inf
    /\ stop_training = FALSE
    /\ mc_best = Inf
    /\ model_path = {}

\* One epoch of fit_generator: validation produces val_loss, the callbacks
\* run in list order (EarlyStopping, then ModelCheckpoint), and the loop ends
\* when stop_training is set or cfg.training_epochs epochs have run.
EpochEnd ==
    /\ t_pc = "fit"
    /\ Len(history) < training_epochs
    /\ ~stop_training
    /\ \E val_loss \in ValLosses :
        LET epoch == Len(history) + 1
            es == EarlyStopping([best |-> es_best, wait |-> es_wait,
                                 stop |-> stop_training],
                                val_loss, early_stopping)
            mc == ModelCheckpoint([best |-> mc_best, files |-> model_path],
                                  epoch, val_loss)
        IN /\ history' = Append(history, val_loss)
           /\ es_best' = es.best
           /\ es_wait' = es.wait
           /\ stop_training' = es.stop
           /\ mc_best' = mc.best
           /\ model_path' = mc.files
           /\ t_pc' = IF es.stop \/ epoch = training_epochs
                      THEN "cleanup" ELSE "fit"
    /\ UNCHANGED <<early_stopping, training_epochs>>
    /\ UNCHANGED <<modelVars, imgVars, targetVars, frameVars>>

\* "load best model and delete others": every file of the listing but the
\* last is removed, then glob(...)[0] is loaded (IndexError when no
\* checkpoint was ever written).
Cleanup ==
    /\ t_pc = "cleanup"
    /\ \E l \in Glob(model_path) :
        /\ model_path' = model_path \ ModelsToDelete(l)
        /\ t_pc' = IF model_path = {} THEN "error" ELSE "done"
    /\ UNCHANGED <<early_stopping, training_epochs, history, es_wait,
                   es_best, stop_training, mc_best>>
    /\ UNCHANGED <<modelVars, imgVars, targetVars, frameVars>>

NextTrain == EpochEnd \/ Cleanup

SpecTrain == InitTrain /\ [][NextTrain]_vars

----------------------------------------------------------------------------
(* Claims about train.py.                                                  *)

\* The checkpoint with the lowest validation loss among those written.
BestCheckpoints(files) ==
    {f \in files : \A g \in files : NpLessEqual(f.val_loss, g.val_loss)}

\* C1: after training and cleanup, whenever at least one checkpoint was
\* written, the only checkpoint file left in the model folder is the one
\* with the lowest validation loss among all checkpoints written, whatever
\* order the directory listing returned the files in.  (The checkpoints
\* written are one per epoch at which val_loss improved on every earlier
\* epoch: the files written cannot be read off the folder after cleanup, so
\* they are recomputed from the history.)
Written ==
    {CheckpointFile(n, history[n]) : n \in
        {m \in 1..Len(history) :
            /\ history[m].kind = "num"
            /\ \A j \in 1..(m - 1) :
                history[j].kind = "num" => history[m].v < history[j].v}}
C1_OnlyBestCheckpointLeft ==
    (t_pc \in {"done", "error"} /\ Written # {})
        => /\ t_pc = "done"
           /\ Cardinality(model_path) = 1
           /\ model_path = BestCheckpoints(Written)

\* The number of consecutive epochs, ending with epoch n, at which val_loss
\* failed to improve on the best value of the epochs before it.
Improved(h, n) ==
    /\ h[n].kind = "num"
    /\ \A j \in 1..(n - 1) : h[j].kind = "num" => h[n].v < h[j].v
LastImproved(h, n) ==
    IF \E m \in 1..n : Improved(h, m)
    THEN CHOOSE m \in 1..n :
            Improved(h, m) /\ \A k \in (m + 1)..n : ~Improved(h, k)
    ELSE 0
Streak(h, n) == n - LastImproved(h, n)

----------------------------------------------------------------------------
(* models.py: the model builders.  A tensor is its static shape, as        *)
(* K.int_shape gives it without the batch axis: ndim counts the axes with  *)
(* the batch axis, h and w are the spatial sizes (0 stands for None, an    *)
(* unknown size) and c the channels.  conv_filters holds the number of    *)
(* filters given to each convolution layer the tensor depends on.  A       *)
(* tensor with ok = FALSE stands for an exception raised while building.   *)

Raised == [ok |-> FALSE, ndim |-> 0, h |-> 0, w |-> 0, c |-> 0,
           conv_filters |-> {}]

\* Input(shape=img_size)
Input(shape) ==
    [ok |-> TRUE, ndim |-> Len(shape) + 1, h |-> shape[1], w |-> shape[2],
     c |-> IF Len(shape) >= 3 THEN shape[3] ELSE 0,
     conv_filters |-> {}]

\* Conv2D(filters, padding="same", strides=1): needs a 4-axis input, keeps
\* the spatial sizes and sets the channels.
Conv2D(x, n) ==
    IF ~x.ok \/ x.ndim # 4 THEN Raised
    ELSE [x EXCEPT !.c = n, !.conv_filters = x.conv_filters \cup {n}]

\* MaxPooling2D(pool_size=2, strides=2, padding="same"): ceil(size / 2).
MaxPooling2D(x) ==
    IF ~x.ok \/ x.ndim # 4 THEN Raised
    ELSE [x EXCEPT !.h = (x.h + 1) \div 2, !.w = (x.w + 1) \div 2]

\* Conv2DTranspose(filters, kernel_size=3, strides=2, padding="same"):
\* doubles the spatial sizes and sets the channels.
\* (Conv2DTransposeStride1 is the variant with strides=1, against which the
\* statement of C3 is tested.)
Conv2DTransposeStride1(x, n) ==
    IF ~x.ok \/ x.ndim # 4 THEN Raised
    ELSE [x EXCEPT !.c = n, !.conv_filters = x.conv_filters \cup {n}]
Conv2DTranspose(x, n) ==
    IF ~x.ok \/ x.ndim # 4 THEN Raised
    ELSE [x EXCEPT !.h = 2 * x.h, !.w = 2 * x.w, !.c = n,
                   !.conv_filters = x.conv_filters \cup {n}]

\* UpSampling2D() with the default size (2, 2).
UpSampling2D(x) ==
    IF ~x.ok \/ x.ndim # 4 THEN Raised
    ELSE [x EXCEPT !.h = 2 * x.h, !.w = 2 * x.w]

\* Add()([a, b]): the output shape of an element-wise merge.  Per axis: None
\* if either size is None, the other size if one of them is 1, the common
\* size if they agree, and ValueError ("Operands could not be broadcast
\* together") otherwise.
Broadcastable(i, j) == i = 0 \/ j = 0 \/ i = 1 \/ j = 1 \/ i = j
BroadcastDim(i, j) ==
    IF i = 0 \/ j = 0 THEN 0 ELSE IF i = 1 THEN j ELSE i
Add(a, b) ==
    IF ~a.ok \/ ~b.ok \/ a.ndim # b.ndim THEN Raised
    ELSE IF ~(Broadcastable(a.h, b.h) /\ Broadcastable(a.w, b.w)
              /\ Broadcastable(a.c, b.c)) THEN Raised
    ELSE [ok |-> TRUE, ndim |-> a.ndim,
          h |-> BroadcastDim(a.h, b.h), w |-> BroadcastDim(a.w, b.w),
          c |-> BroadcastDim(a.c, b.c),
          conv_filters |-> a.conv_filters \cup b.conv_filters]

\* residual_bottleneck_module(x_in, output_filters, bottleneck_factor)
BottleneckFilters(output_filters, bottleneck_factor) ==
    output_filters \div bottleneck_factor
residual_bottleneck_module(x_in, output_filters, bottleneck_factor) ==
    LET input_filters == x_in.c
        bottleneck_filters ==
            BottleneckFilters(output_filters, bottleneck_factor)
        x1 == Conv2D(x_in, bottleneck_filters)
        x2 == Conv2D(x1, bottleneck_filters)
        x3 == Conv2D(x2, output_filters)
        skip == IF output_filters # input_filters
                THEN Conv2D(x_in, output_filters) ELSE x_in
    IN Add(skip, x3)

\* Model(inputs, outputs).compile(optimizer, loss): the returned model, or
\* the exception when a layer raised.
Model(name, outputs, opt, loss) ==
    IF \E i \in DOMAIN outputs : ~outputs[i].ok
    THEN [built |-> FALSE, name |-> name, outputs |-> <<>>,
          optimizer |-> "", loss |-> ""]
    ELSE [built |-> TRUE, name |-> name, outputs |-> outputs,
          optimizer |-> opt, loss |-> loss]

\* The default bottleneck_factor of residual_bottleneck_module.
DefaultBottleneckFactor == 2

\* leap(img_size, output_channels, filters, kernel_size, optimizer, loss_fcn)
\* (leapFiltersOut is the variant whose last layer has 'filters' channels,
\* against which the statement of C4 is tested.)
leapFiltersOut(size, outs, f, opt, loss) ==
    LET x_in == Input(size)
        x1 == Conv2D(Conv2D(Conv2D(x_in, f), f), f)
        x1_pool == MaxPooling2D(x1)
        x2 == Conv2D(Conv2D(Conv2D(x1_pool, f * 2), f * 2), f * 2)
        x2_pool == MaxPooling2D(x2)
        x3 == Conv2D(Conv2D(Conv2D(x2_pool, f * 4), f * 4), f * 4)
        x4 == Conv2D(Conv2D(Conv2DTranspose(x3, f * 2), f * 2), f * 2)
        x_out == Conv2DTranspose(x4, f)
    IN Model("leap", <<x_out>>, opt, loss)
leap(size, outs, f, opt, loss) ==
    LET x_in == Input(size)
        x1 == Conv2D(Conv2D(Conv2D(x_in, f), f), f)
        x1_pool == MaxPooling2D(x1)
        x2 == Conv2D(Conv2D(Conv2D(x1_pool, f * 2), f * 2), f * 2)
        x2_pool == MaxPooling2D(x2)
        x3 == Conv2D(Conv2D(Conv2D(x2_pool, f * 4), f * 4), f * 4)
        x4 == Conv2D(Conv2D(Conv2DTranspose(x3, f * 2), f * 2), f * 2)
        x_out == Conv2DTranspose(x4, outs)
    IN Model("leap", <<x_out>>, opt, loss)

\* "if len(img_size) == 2: img_size = img_size + (1,)"
WithChannels(size) == IF Len(size) = 2 THEN size \o <<1>> ELSE size

\* One upsampling step of the decoder: UpSampling2D or Conv2DTranspose.
Upsample(x, f, ups) == IF ups THEN UpSampling2D(x) ELSE Conv2DTranspose(x, f)

\* One hourglass stage: the four pooled encoder levels, the bottom, and the
\* four decoder levels with their skip additions (x1..x9 of hourglass,
\* x1_1..x1_9 and x2_1..x2_9 of stacked_hourglass).
Stage(x, f, ups) ==
    LET b == DefaultBottleneckFactor
        x1_pre == residual_bottleneck_module(x, f, b)
        x1 == MaxPooling2D(x1_pre)
        x2_pre == residual_bottleneck_module(x1, f, b)
        x2 == MaxPooling2D(x2_pre)
        x3_pre == residual_bottleneck_module(x2, f, b)
        x3 == MaxPooling2D(x3_pre)
        x4_pre == residual_bottleneck_module(x3, f, b)
        x4 == MaxPooling2D(x4_pre)
        x5 == residual_bottleneck_module(x4, f, b)
        x6_add == Add(x4_pre, Upsample(x5, f, ups))
        x6 == residual_bottleneck_module(x6_add, f, b)
        x7_add == Add(x3_pre, Upsample(x6, f, ups))
        x7 == residual_bottleneck_module(x7_add, f, b)
        x8_add == Add(x2_pre, Upsample(x7, f, ups))
        x8 == residual_bottleneck_module(x8_add, f, b)
        x9_add == Add(x1_pre, Upsample(x8, f, ups))
    IN residual_bottleneck_module(x9_add, f, b)

\* hourglass(img_size, output_channels, filters, kernel_size, optimizer,
\*           loss_fcn, upsampling_layers)
hourglass(size, outs, f, opt, loss, ups) ==
    LET x_in == Input(WithChannels(size))
        x9 == Stage(x_in, f, ups)
        x_out == Conv2D(x9, outs)
    IN Model("hourglass", <<x_out>>, opt, "mean_squared_error")

\* stacked_hourglass(img_size, output_channels, filters, kernel_size,
\*                   optimizer, loss_fcn, upsampling_layers)
stacked_hourglass(size, outs, f, opt, loss, ups) ==
    LET x_in == Input(WithChannels(size))
        x1_9 == Stage(x_in, f, ups)
        x2_9 == Stage(x1_9, f, ups)
        x_out1 == residual_bottleneck_module(x1_9, outs, 1)
        x_out2 == residual_bottleneck_module(x2_9, outs, 1)
    IN Model("stacked_hourglass", <<x_out1, x_out2>>, opt,
             "mean_squared_error")

Dims == 0..MaxDim
ImgSizes ==
    {<<h, w>> : h \in Dims, w \in Dims}
        \cup {<<h, w, c>> : h \in Dims, w \in Dims, c \in 1..MaxChannels}
Optimizers == {"adam", "sgd"}
Losses == {"mean_squared_error", "mean_absolute_error"}

InitModels ==
    /\ IdleTrain
    /\ IdleImg
    /\ IdleTargets
    /\ IdleFrames
    /\ m_pc = "call"
    /\ img_size \in ImgSizes
    /\ output_channels \in 1..MaxOutputs
    /\ filters \in 1..MaxFilters
    /\ optimizer \in Optimizers
    /\ loss_fcn \in Losses
    /\ upsampling_layers \in BOOLEAN
    /\ model = <<>>

CallLeap ==
    /\ m_pc = "call"
    /\ ~upsampling_layers       \* leap has no upsampling_layers parameter
    /\ model' = leap(img_size, output_channels, filters, optimizer, loss_fcn)
    /\ m_pc' = "done"
    /\ UNCHANGED <<img_size, output_channels, filters, optimizer, loss_fcn,
                   upsampling_layers>>
    /\ UNCHANGED <<trainVars, imgVars, targetVars, frameVars>>

CallHourglass ==
    /\ m_pc = "call"
    /\ model' = hourglass(img_size, output_channels, filters, optimizer,
                          loss_fcn, upsampling_layers)
    /\ m_pc' = "done"
    /\ UNCHANGED <<img_size, output_channels, filters, optimizer, loss_fcn,
                   upsampling_layers>>
    /\ UNCHANGED <<trainVars, imgVars, targetVars, frameVars>>

CallStackedHourglass ==
    /\ m_pc = "call"
    /\ model' = stacked_hourglass(img_size, output_channels, filters,
                                  optimizer, loss_fcn, upsampling_layers)
    /\ m_pc' = "done"
    /\ UNCHANGED <<img_size, output_channels, filters, optimizer, loss_fcn,
                   upsampling_layers>>
    /\ UNCHANGED <<trainVars, imgVars, targetVars, frameVars>>

NextModels == CallLeap \/ CallHourglass \/ CallStackedHourglass

SpecModels == InitModels /\ [][NextModels]_vars

----------------------------------------------------------------------------
(* Claims about models.py.                                                 *)

\* A height or width the four poolings and four upsamplings of a stage
\* return to itself: None, or a positive multiple of 16.
Multiple16(d) == d % 16 = 0
SameSpatial(out) == out.h = img_size[1] /\ out.w = img_size[2]

\* C3 as stated: stacked_hourglass always returns a model with exactly two
\* output tensors, each with the input's height and width, for every input
\* height and width and for both values of upsampling_layers.
C3_AlwaysTwoOutputsOfInputSize ==
    (m_pc = "done" /\ model.name = "stacked_hourglass")
        => /\ model.built
           /\ Len(model.outputs) = 2
           /\ \A i \in DOMAIN model.outputs : SameSpatial(model.outputs[i])

\* C3 as amended: for every input height and width that are each None or a
\* positive multiple of 16, and for both values of upsampling_layers,
\* stacked_hourglass returns a model with exactly two output tensors, each
\* with the input's height and width; whenever it returns a model at all,
\* the model has exactly two output tensors.
C3_TwoOutputsOfInputSize ==
    (m_pc = "done" /\ model.name = "stacked_hourglass")
        => /\ model.built => Len(model.outputs) = 2
           /\ (Multiple16(img_size[1]) /\ Multiple16(img_size[2]))
                => /\ model.built
                   /\ Len(model.outputs) = 2
                   /\ \A i \in DOMAIN model.outputs :
                        SameSpatial(model.outputs[i])

\* C3 witness: stacked_hourglass built with transposed convolutions on a
\* 16 x 32 image.
C3_Witness ==
    /\ m_pc = "done"
    /\ model.name = "stacked_hourglass"
    /\ model.built
    /\ ~upsampling_layers
    /\ img_size[1] = 16 /\ img_size[2] = 32
    /\ Len(model.outputs) = 2

AllConvFilters ==
    UNION {model.outputs[i].conv_filters : i \in DOMAIN model.outputs}

C12_CompiledWithArguments ==
    (m_pc = "done" /\ model.built)
        => /\ model.loss = loss_fcn
           /\ model.optimizer = optimizer

----------------------------------------------------------------------------
(* utils.py: scale_img and enhance_contrast.  Pixel values are integers;   *)
(* a value computed by a division is kept as the fraction num / den, with  *)
(* den = 0 standing for the result of a floating-point division by zero    *)
(* (NaN for 0 / 0, an infinity otherwise).                                 *)

Frac(n, d) == [num |-> n, den |-> d]

SeqMin(a) == CHOOSE x \in Range(a) : \A y \in Range(a) : x <= y
SeqMax(a) == CHOOSE x \in Range(a) : \A y \in Range(a) : x >= y

\* np.ptp(a): max - min
NpPtp(a) == SeqMax(a) - SeqMin(a)

\* scale_img(img)
scale_img(a) ==
    IF NpPtp(a) # 0
    THEN [i \in DOMAIN a |-> Frac(a[i] - SeqMin(a), NpPtp(a))]
    ELSE [i \in DOMAIN a |-> Frac(a[i], 1)]

\* np.percentile(a, p) with the default linear interpolation, times 100:
\* the value at the virtual index p / 100 * (n - 1) of the sorted array.
NpPercentile100(a, p) ==
    LET sorted == SortSeq(a, LAMBDA x, y : x < y)
        n == Len(a)
        pos == p * (n - 1)
        lo == pos \div 100 + 1
        hi == Min(lo + 1, n)
    IN 100 * sorted[lo] + (pos % 100) * (sorted[hi] - sorted[lo])

\* np.clip(x, a_min, a_max) == minimum(a_max, maximum(x, a_min))
NpClip(x, a_min, a_max) == Min(a_max, Max(x, a_min))

\* enhance_contrast(img, percentiles), every quantity scaled by 100
enhance_contrast(a, p) ==
    LET limits == <<NpPercentile100(a, p[1]), NpPercentile100(a, p[2])>>
    IN [i \in DOMAIN a |->
            Frac(NpClip(100 * a[i] - limits[1], 0, limits[2] - limits[1]),
                 NpPtp(limits))]

Images == UNION {[1..n -> 0..MaxValue] : n \in 1..MaxPixels}
Percents == {0, 5, 50, 95, 100}

InitImg ==
    /\ IdleTrain
    /\ IdleModels
    /\ IdleTargets
    /\ IdleFrames
    /\ i_pc = "call"
    /\ img \in Images
    /\ percentiles \in Percents \X Percents
    /\ img_out = <<>>

CallScaleImg ==
    /\ i_pc = "call"
    /\ img_out' = scale_img(img)
    /\ i_pc' = "scaled"
    /\ UNCHANGED <<img, percentiles>>
    /\ UNCHANGED <<trainVars, modelVars, targetVars, frameVars>>

CallEnhanceContrast ==
    /\ i_pc = "call"
    /\ img_out' = enhance_contrast(img, percentiles)
    /\ i_pc' = "enhanced"
    /\ UNCHANGED <<img, percentiles>>
    /\ UNCHANGED <<trainVars, modelVars, targetVars, frameVars>>

NextImg == CallScaleImg \/ CallEnhanceContrast

SpecImg == InitImg /\ [][NextImg]_vars

----------------------------------------------------------------------------
(* Claims about scale_img and enhance_contrast.                            *)

\* A returned value that lies in [0, 1]: a proper fraction (not the NaN or
\* infinity of a division by zero) between 0 and 1.
InUnitInterval(q) == q.den > 0 /\ 0 <= q.num /\ q.num <= q.den

\* C5: enhance_contrast returns an image whose every value lies in [0, 1],
\* for every image and every pair of percentiles in 0..100, also when the
\* two percentile limits coincide and when the pair is given in descending
\* order.
C5_EnhancedInUnitInterval ==
    i_pc = "enhanced" => \A i \in DOMAIN img_out : InUnitInterval(img_out[i])

\* C9: every value scale_img returns lies in [0, 1], and when the input is
\* not constant the least returned value is 0 and the greatest is 1.
C9_ScaledInUnitInterval ==
    i_pc = "scaled"
        => /\ \A i \in DOMAIN img_out : InUnitInterval(img_out[i])
           /\ (\E i, j \in DOMAIN img : img[i] # img[j])
                => /\ \E i \in DOMAIN img_out : img_out[i].num = 0
                   /\ \E i \in DOMAIN img_out :
                        img_out[i].num = img_out[i].den

----------------------------------------------------------------------------
(* utils.py: get_targets.  A boolean image is its shape and the set of   *)
(* the pixels <<row, column>> that hold True; a stack of images (a 3-axis  *)
(* array) is its shape and the sequence of its slices' True pixels.  Rows  *)
(* and columns are numbered from 0 as in the code; cells are numbered from *)
(* 1, the position in the label file.                                      *)

\* The pixels <<row, column>> of an image of the given shape.
PixelsOf(shape) == (0..(shape[1] - 1)) \X (0..(shape[2] - 1))

\* np.zeros(shape, dtype=bool)
NpZeros(shape) ==
    IF Len(shape) = 3
    THEN [shape |-> shape, on |-> [i \in 1..shape[1] |-> {}]]
    ELSE [shape |-> shape, on |-> {}]

\* a[i] of a stack
Slice(a, i) == [shape |-> Tail(a.shape), on |-> a.on[i]]

\* a[i, cell[:, 0], cell[:, 1]] = True
SetCoordinates(a, i, cell) == [a EXCEPT !.on[i] = a.on[i] \cup cell]

\* np.max(a, 0) of a boolean stack: a pixel of the result is True when it
\* is True in at least one slice (ValueError for a stack with no slices is
\* raised by get_targets below).
\* (NpMin0 is np.min(a, 0), against which the statement of C10 is tested.)
NpMin0(a) ==
    [shape |-> Tail(a.shape),
     on |-> {q \in PixelsOf(Tail(a.shape)) :
                \A i \in 1..a.shape[1] : q \in a.on[i]}]
NpMax0(a) ==
    [shape |-> Tail(a.shape),
     on |-> UNION {a.on[i] : i \in 1..a.shape[1]}]

\* json.load(f)['dimensions'][1:3]
\* (ImageDimensionsFirstTwo is the slice [0:2], against which the statement
\* of C7 is tested.)
ImageDimensionsFirstTwo(info) == <<info[1], info[2]>>
ImageDimensions(info) == <<info[2], info[3]>>

Abs(x) == IF x < 0 THEN -x ELSE x

\* cv2.findContours on the soma mask and cv2.drawContours of contour 0 with
\* the given thickness on np.zeros(dimensions): the outline of the mask (its
\* pixels with a 4-neighbour outside it), drawn thickness pixels wide.  The
\* raster OpenCV draws is approximated; the array returned has the shape of
\* the array drawn on.
Outline(soma) ==
    {q \in soma : \E d \in {<<0, 1>>, <<1, 0>>, <<0, -1>>, <<-1, 0>>} :
                    <<q[1] + d[1], q[2] + d[2]>> \notin soma}
DrawContours(shape, soma, thickness) ==
    [shape |-> shape,
     on |-> {q \in PixelsOf(shape) : \E o \in Outline(soma) :
                Max(Abs(q[1] - o[1]), Abs(q[2] - o[2])) <= thickness \div 2}]

\* center = np.mean(cell, 0).astype('int')
SumOver(S, k) ==
    LET RECURSIVE Sum(_)
        Sum(T) == IF T = {} THEN 0
                  ELSE LET q == CHOOSE q \in T : TRUE
                       IN q[k] + Sum(T \ {q})
    IN Sum(S)
Center(cell) ==
    <<SumOver(cell, 1) \div Cardinality(cell),
      SumOver(cell, 2) \div Cardinality(cell)>>

\* The point (x, y) handed to cv2.circle: (center[1], center[0]).
\* (CirclePointSwapped is (center[0], center[1]), against which the
\* statement of C6 is tested.)
CirclePointSwapped(center) == [x |-> center[1], y |-> center[2]]
CirclePoint(center) == [x |-> center[2], y |-> center[1]]

\* cv2.circle(array, (x, y), radius, 1, thickness=-1): the filled disc around
\* column x of row y, clipped to the array; radius 0 draws the one pixel.
Circle(a, pt, radius) ==
    [shape |-> a.shape,
     on |-> a.on \cup
            {q \in PixelsOf(a.shape) :
                (q[1] - pt.y) * (q[1] - pt.y) + (q[2] - pt.x) * (q[2] - pt.x)
                    <= radius * radius}]

\* The default border_thickness of get_targets.
BorderThickness == 2

\* One pass of the loop of get_targets: the soma, border and centroid masks
\* of cell i, each written into slice i of its stack of zeros.
SomaMask(dims, cell) == Slice(SetCoordinates(NpZeros(<<1>> \o dims), 1, cell), 1)
BorderMask(dims, cell) ==
    DrawContours(dims, SomaMask(dims, cell).on, BorderThickness)
CentroidMask(dims, cell, radius) ==
    Circle(NpZeros(dims), CirclePoint(Center(cell)), radius)

\* The three stacks after the loop over all cells.
Stack(dims, slices) ==
    [shape |-> <<Len(slices)>> \o dims,
     on |-> [i \in 1..Len(slices) |-> slices[i].on]]
masks_soma(dims, cells) ==
    Stack(dims, [i \in 1..Len(cells) |-> SomaMask(dims, cells[i])])
masks_border(dims, cells) ==
    Stack(dims, [i \in 1..Len(cells) |-> BorderMask(dims, cells[i])])
masks_centroids(dims, cells, radius) ==
    Stack(dims, [i \in 1..Len(cells) |->
                    CentroidMask(dims, cells[i], radius)])

\* get_targets(folder, collapse_masks, centroid_radius)
get_targets(info, cells, collapse_masks, radius) ==
    LET dims == ImageDimensions(info)
    IN IF ~collapse_masks
       THEN [raised |-> FALSE,
             somas |-> masks_soma(dims, cells),
             borders |-> masks_border(dims, cells),
             centroids |-> masks_centroids(dims, cells, radius)]
       ELSE IF Len(cells) = 0
       THEN [raised |-> TRUE, somas |-> <<>>, borders |-> <<>>,
             centroids |-> <<>>]
       ELSE [raised |-> FALSE,
             somas |-> NpMax0(masks_soma(dims, cells)),
             borders |-> NpMax0(masks_border(dims, cells)),
             centroids |-> NpMax0(masks_centroids(dims, cells, radius))]

\* The label files of a valid folder: cells with at least one coordinate,
\* every coordinate inside the image, at most k coordinates in all.
Cells(pixels, k) == {c \in SUBSET pixels : c # {} /\ Cardinality(c) <= k}
RECURSIVE ListsOf(_, _)
ListsOf(cells, k) ==
    {<<>>} \cup
    UNION {{<<c>> \o rest : rest \in ListsOf(cells, k - Cardinality(c))} :
            c \in {d \in cells : Cardinality(d) <= k}}
CellLists(pixels, k) == ListsOf(Cells(pixels, k), k)

\* The first entry of 'dimensions' (the number of frames) is not used by
\* get_targets; it is given a value no image side takes at the base bounds.
FrameCounts == {3}

InitTargets ==
    /\ IdleTrain
    /\ IdleModels
    /\ IdleImg
    /\ IdleFrames
    /\ g_pc = "call"
    /\ dimensions \in FrameCounts \X (1..MaxSide) \X (1..MaxSide)
    /\ cell_masks \in CellLists(PixelsOf(<<dimensions[2], dimensions[3]>>),
                                MaxCoords)
    /\ centroid_radius \in 0..MaxRadius
    /\ masks_per_cell = <<>>
    /\ masks_collapsed = <<>>

\* get_targets called on the folder with collapse_masks=False and with
\* collapse_masks=True.
CallGetTargets ==
    /\ g_pc = "call"
    /\ g_pc' = "done"
    /\ masks_per_cell' =
            get_targets(dimensions, cell_masks, FALSE, centroid_radius)
    /\ masks_collapsed' =
            get_targets(dimensions, cell_masks, TRUE, centroid_radius)
    /\ UNCHANGED <<dimensions, cell_masks, centroid_radius>>
    /\ UNCHANGED <<trainVars, modelVars, imgVars, frameVars>>

NextTargets == CallGetTargets

SpecTargets == InitTargets /\ [][NextTargets]_vars

----------------------------------------------------------------------------
(* Claims about get_targets.                                               *)

\* C6: with collapse_masks=False, masks['centroids'][i] has at least one
\* True pixel for every cell i, for every centroid_radius >= 0 and every
\* non-empty list of in-bounds coordinates per cell.
C6_CentroidHasForeground ==
    g_pc = "done"
        => \A i \in 1..Len(cell_masks) :
                masks_per_cell.centroids.on[i] # {}

\* C6 witness: two cells on an image that is not square, a cell of two
\* pixels among them, and centroid_radius 0.
C6_Witness ==
    /\ g_pc = "done"
    /\ Len(cell_masks) = 2
    /\ Cardinality(cell_masks[2]) = 2
    /\ dimensions[2] # dimensions[3]
    /\ centroid_radius = 0

MaskKeys == {"somas", "borders", "centroids"}

----------------------------------------------------------------------------
(* utils.py: get_frames.  files is the list glob returns; a file is named  *)
(* by its 0-based position in that list.                                   *)

FrameNone == [kind |-> "None", n |-> 0, list |-> <<>>]
FrameInt(k) == [kind |-> "int", n |-> k, list |-> <<>>]
FrameList(l) == [kind |-> "list", n |-> 0, list |-> l]

\* np.floor(np.linspace(0, stop, num)).astype(np.int): num samples with the
\* step stop / (num - 1), the last one set to stop, each rounded down.
FloorLinspace(stop, num) ==
    [i \in 1..num |->
        IF num = 1 THEN 0
        ELSE IF i = num THEN stop
        ELSE ((i - 1) * stop) \div (num - 1)]

\* indices = np.floor(np.linspace(0, len(files) - 1, frame_numbers))
\* (IndicesToLen is the variant that ends at len(files), against which the
\* statement of C8 is tested.)
IndicesToLen(n, k) == FloorLinspace(n, k)
Indices(n, k) == FloorLinspace(n - 1, k)

\* np.asarray(files)[indices]: a negative index counts from the end; an
\* index outside -n..n-1 raises IndexError.
TakeFiles(n, indices) ==
    IF \E i \in DOMAIN indices : indices[i] < -n \/ indices[i] >= n
    THEN [pc |-> "IndexError", load_files |-> <<>>]
    ELSE [pc |-> "done",
          load_files |-> [i \in DOMAIN indices |->
                            IF indices[i] < 0 THEN indices[i] + n
                            ELSE indices[i]]]

\* get_frames(folder, frame_numbers)
\* (get_framesSelectFirst is the variant that selects the files before it
\* looks whether any were found, against which the statement of C11 is
\* tested.)
get_framesSelectFirst(n, fn) ==
    LET r == IF fn.kind = "None"
             THEN [pc |-> "done", load_files |-> [i \in 1..n |-> i - 1]]
             ELSE IF fn.kind = "list" THEN TakeFiles(n, fn.list)
             ELSE TakeFiles(n, Indices(n, fn.n))
    IN IF r.pc = "done" /\ n = 0
       THEN [pc |-> "IOError", load_files |-> r.load_files]
       ELSE r
get_frames(n, fn) ==
    IF n = 0 THEN [pc |-> "IOError", load_files |-> <<>>]
    ELSE IF fn.kind = "None"
    THEN [pc |-> "done", load_files |-> [i \in 1..n |-> i - 1]]
    ELSE IF fn.kind = "list" THEN TakeFiles(n, fn.list)
    ELSE TakeFiles(n, Indices(n, fn.n))

FrameNumbers ==
    {FrameNone} \cup {FrameInt(k) : k \in 1..MaxFrames}
        \cup {FrameList(l) :
                l \in UNION {[1..m -> (-1)..MaxFiles] : m \in 1..MaxList}}

InitFrames ==
    /\ IdleTrain
    /\ IdleModels
    /\ IdleImg
    /\ IdleTargets
    /\ f_pc = "call"
    /\ n_files \in 0..MaxFiles
    /\ frame_numbers \in FrameNumbers
    /\ load_files = <<>>

CallGetFrames ==
    /\ f_pc = "call"
    /\ LET r == get_frames(n_files, frame_numbers)
       IN /\ f_pc' = r.pc
          /\ load_files' = r.load_files
    /\ UNCHANGED <<n_files, frame_numbers>>
    /\ UNCHANGED <<trainVars, modelVars, imgVars, targetVars>>

NextFrames == CallGetFrames

SpecFrames == InitFrames /\ [][NextFrames]_vars

----------------------------------------------------------------------------
(* Claims about get_frames.                                                *)

\* C8: called with an integer frame_numbers = k >= 1 on a folder of n >= 1
\* files, get_frames selects exactly k files; every selected index lies in
\* 0..n-1 and the indices are non-decreasing; the first is 0 and, for
\* k >= 2, the last is n-1; the indices are pairwise distinct when k <= n.
C8_EvenlySpacedFrames ==
    (f_pc # "call" /\ frame_numbers.kind = "int" /\ n_files >= 1)
        => LET k == frame_numbers.n
               n == n_files
           IN /\ f_pc = "done"
              /\ Len(load_files) = k
              /\ \A i \in 1..k : load_files[i] \in 0..(n - 1)
              /\ \A i \in 1..(k - 1) : load_files[i] <= load_files[i + 1]
              /\ load_files[1] = 0
              /\ k >= 2 => load_files[k] = n - 1
              /\ k <= n => \A i, j \in 1..k :
                                i # j => load_files[i] # load_files[j]

\* C8 witness: 4 of 5 files selected, where the spacing 4/3 is not whole.
C8_Witness ==
    /\ f_pc = "done"
    /\ frame_numbers.kind = "int"
    /\ frame_numbers.n = 4
    /\ n_files = 5
    /\ load_files = <<0, 1, 2, 4>>

\* C11: get_frames raises IOError when the folder contains no *.tif files,
\* for every value of frame_numbers (None, list or integer), and it has
\* selected no file when it does.
C11_IOErrorOnEmptyFolder ==
    (f_pc # "call" /\ n_files = 0)
        => /\ f_pc = "IOError"
           /\ load_files = <<>>

\* C11 witness: IOError raised for an integer frame_numbers on a folder
\* without files, where selecting first would have indexed an empty list.
C11_Witness ==
    /\ f_pc = "IOError"
    /\ n_files = 0
    /\ frame_numbers.kind = "int"
    /\ frame_numbers.n >= 2

----------------------------------------------------------------------------
(* The whole repository: any one of the programs above.                    *)

Init == InitTrain \/ InitModels \/ InitImg \/ InitTargets \/ InitFrames
Next == NextTrain \/ NextModels \/ NextImg \/ NextTargets \/ NextFrames
Spec == Init /\ [][Next]_vars

=============================================================================
